---- MODULE Spec2Model ----
(***************************************************************************)
(* Model of the tiling core of HubMap:                                     *)
(*   - InferenceDataset (sliding-window planner, tile crops) and           *)
(*     predict_entire_mask_downscaled (weighted accumulation), and         *)
(*   - InMemoryTrainDataset (fold partition, train/valid switch,           *)
(*     rejection sampling of training tiles).                              *)
(* Lengths are in pixels.  The kernel is computed in float64 as numpy does  *)
(* and cast to float16; the kernel and the two torch.half buffers hold     *)
(* halves, each the integer number of units of 2^-24 of its value, and     *)
(* every sum and quotient is rounded to a half.  Probabilities and         *)
(* thresholds are rationals <<num, den>>.                                  *)
(***************************************************************************)
EXTENDS Integers, Sequences, FiniteSets, TLC

\* ------------------------------------------------------------------ bounds
MaxDim == 5          \* image height and width range over 1..MaxDim
MaxTile == 4         \* tile_size ranges over 1..MaxTile
MaxOverlapNum == 3   \* overlap_factor ranges over n/d, n in 1..MaxOverlapNum
MaxBatch == 2        \* batch_size ranges over 1..MaxBatch
MaxPixel == 1        \* uniform test images have a value in 0..MaxPixel

\* ---------------------------------------------------------------- helpers
Min(a, b) == IF a < b THEN a ELSE b
Max(a, b) == IF a > b THEN a ELSE b

RECURSIVE Pow(_, _)
Pow(b, e) == IF e = 0 THEN 1 ELSE b * Pow(b, e - 1)

RECURSIVE Gcd(_, _)
Gcd(a, b) == IF b = 0 THEN a ELSE Gcd(b, a % b)

\* ============================================================ InferenceDataset

VARIABLES
    original_img,    \* pixel values of the loaded image, [<<x, y>> -> value]
    orig_size,       \* original_img.shape: <<rows, columns, 3>>, or two long
    tile_size,       \* raw tile size times reduce_factor
    overlap_factor,  \* <<num, den>>
    positions,       \* result of get_positions()
    batch_size,      \* DataLoader batch size
    tta,             \* test-time augmentation flag
    loader_i,        \* number of dataset items the DataLoader has yielded
    weighting,       \* the float16 kernel, [<<i, j>> -> units of 2^-24]
    global_pred,     \* accumulated weighted predictions, then the final map
    global_counter,  \* accumulated weights
    accumulated,     \* log of the accumulation statements executed, in order
    ppc,             \* position in predict_entire_mask_downscaled
    perror           \* exception raised, or "none"

inferVars == <<original_img, orig_size, tile_size, overlap_factor, positions,
               batch_size, tta, loader_i, weighting, global_pred,
               global_counter, accumulated, ppc, perror>>

\* InMemoryTrainDataset
VARIABLES
    train_img_names,   \* the image names, as the sequence <<0, ..., n-1>>
    image_sizes,       \* <<height, width>> per image
    masks,             \* mask raster per image
    conv_hulls,        \* hull raster per image (convhull mode only)
    pseudo_img_sizes,  \* <<height, width>> per pseudo image
    pseudo_masks,      \* mask raster per pseudo image, reloaded per fold
    sampling_mode,
    on_spot_sampling,  \* <<num, den>>
    use_external,      \* <<num, den>>, or None
    use_pseudo_label,  \* <<num, den>>, or None
    train_img_idx,
    valid_img_idx,
    used_img_idx,
    sampling_thresh,   \* <<num, den>>
    sampling_probs,    \* <<area, total area>> per used image
    image_nb,          \* locals of __getitem__ / accept_tile_policy
    is_pseudo,
    x1,
    y1,
    should_keep,       \* the draw of accept_tile_policy, or None
    is_point_ok,
    gpc,               \* position in __getitem__, "idle" between calls
    terror             \* exception raised, or "none"

dataVars == <<train_img_names, image_sizes, masks, conv_hulls, pseudo_img_sizes,
              sampling_mode, on_spot_sampling, use_external, use_pseudo_label>>
foldVars == <<train_img_idx, valid_img_idx, pseudo_masks>>
modeVars == <<used_img_idx, sampling_thresh, sampling_probs>>
itemVars == <<image_nb, is_pseudo, x1, y1, should_keep, is_point_ok>>
trainVars == <<dataVars, foldVars, modeVars, itemVars, gpc, terror>>

\* a call of get_tile_weighting on its own
VARIABLES
    arg_size,    \* the arguments of the call
    arg_sigma,
    arg_alpha,   \* <<num, den>>
    arg_eps,     \* <<num, den>>
    kernel,      \* the float16 array returned, in units of 2^-24
    kpc          \* position in the call

kernelVars == <<arg_size, arg_sigma, arg_alpha, arg_eps, kernel, kpc>>

\* int(self.tile_size / self.overlap_factor): true division, then truncation
Step(tile, of) == (tile * of[2]) \div of[1]

\* np.arange(0, stop, step) for step > 0, as a sequence
Arange(stop, step) ==
    [i \in 1..((stop + step - 1) \div step) |-> (i - 1) * step]

\* boundaries_x / boundaries_y for one start coordinate c
BoundariesMutNoShift(c, dim, tile) == <<c, c + tile>>
Boundaries(c, dim, tile) ==
    LET space == dim - (c + tile)
    IN  IF space > 0 THEN <<c, c + tile>>
        ELSE <<c + space, c + space + tile>>

\* the nested loops over top_x and top_y, appending (boundaries_x, boundaries_y)
Grid(bx, by) ==
    [k \in 1..(Len(bx) * Len(by)) |->
        <<bx[((k - 1) \div Len(by)) + 1], by[((k - 1) % Len(by)) + 1]>>]

get_positions(size, tile, of) ==
    LET step == Step(tile, of)
        top_x == Arange(size[1], step)
        top_y == Arange(size[2], step)
        bx == [i \in 1..Len(top_x) |-> Boundaries(top_x[i], size[1], tile)]
        by == [j \in 1..Len(top_y) |-> Boundaries(top_y[j], size[2], tile)]
    IN  Grid(bx, by)

\* -------------------------------------------------- InferenceDataset.__getitem__
\* numpy's normalisation of one bound of a slice over an axis of length n
NormIdx(i, n) == IF i < 0 THEN Max(0, i + n) ELSE Min(i, n)

\* the indices selected by [a:b] over an axis of length n, as a sequence
SliceIdx(a, b, n) ==
    LET lo == NormIdx(a, n)
        hi == NormIdx(b, n)
    IN  [k \in 1..Max(0, hi - lo) |-> lo + k - 1]

\* img[pos_x[0]:pos_x[1], pos_y[0]:pos_y[1]] as [rows, cols, val]; src records
\* the bounds the crop was taken at
Crop(img, size, px, py) ==
    LET rs == SliceIdx(px[1], px[2], size[1])
        cs == SliceIdx(py[1], py[2], size[2])
    IN  [rows |-> Len(rs), cols |-> Len(cs),
         src |-> <<px[1], px[2], py[1], py[2]>>,
         val |-> [q \in (0..(Len(rs) - 1)) \X (0..(Len(cs) - 1)) |->
                    img[<<rs[q[1] + 1], cs[q[2] + 1]>>]]]

\* dataset[idx] with idx counted from 1: the tile and its position array
\* (for a three-dimensional original_img; the third index of the crop raises
\* IndexError on a two-dimensional one)
DatasetItem(idx) ==
    LET pos_x == positions[idx][1]
        pos_y == positions[idx][2]
    IN  [img |-> Crop(original_img, orig_size, pos_x, pos_y),
         pos |-> <<pos_x[1], pos_x[2], pos_y[1], pos_y[2]>>]

\* ------------------------------------------------------- get_tile_weighting
\* half + 1 - |x| for row i of the concatenated mgrid (size even)
EdgeDist(i, size) == IF i < size \div 2 THEN i + 1 ELSE size - i

\* ------------------------------------------------ float64 (numpy's default)
\* A natural below 2^58 is the pair <<hi, lo>> = hi * 2^29 + lo.
LimbBase == Pow(2, 29)

WZero == <<0, 0>>
WOne == <<0, 1>>
WOfInt(n) == <<n \div LimbBase, n % LimbBase>>
WAdd(a, b) ==
    LET lo == a[2] + b[2]
    IN  <<a[1] + b[1] + lo \div LimbBase, lo % LimbBase>>
\* a - b for a >= b
WSub(a, b) ==
    IF a[2] >= b[2] THEN <<a[1] - b[1], a[2] - b[2]>>
    ELSE <<a[1] - b[1] - 1, a[2] + LimbBase - b[2]>>
WLt(a, b) == a[1] < b[1] \/ (a[1] = b[1] /\ a[2] < b[2])
WOdd(a) == a[2] % 2 = 1
WShl1(a) == <<2 * a[1] + (2 * a[2]) \div LimbBase, (2 * a[2]) % LimbBase>>
WShr1(a) == <<a[1] \div 2, (a[1] % 2) * (LimbBase \div 2) + a[2] \div 2>>


\* a * 2^n for 0 <= n < 29
WShlLimb(a, n) ==
    LET cut == Pow(2, 29 - n)
    IN  <<a[1] * Pow(2, n) + a[2] \div cut, (a[2] % cut) * Pow(2, n)>>

\* a * 2^n (below 2^58)
WShl(a, n) ==
    IF n <= 0 THEN a
    ELSE IF n >= 29 THEN WShlLimb(<<a[2], 0>>, n - 29)
    ELSE WShlLimb(a, n)

\* a \div 2^n for 0 <= n < 29
WShrLimb(a, n) ==
    LET cut == Pow(2, n)
    IN  <<a[1] \div cut, (a[1] % cut) * Pow(2, 29 - n) + a[2] \div cut>>

\* a \div 2^n
WShr(a, n) ==
    IF n <= 0 THEN a
    ELSE IF n >= 58 THEN WZero
    ELSE IF n >= 29 THEN WShrLimb(<<0, a[1]>>, n - 29)
    ELSE WShrLimb(a, n)

RECURSIVE IntBits(_)
IntBits(n) == IF n = 0 THEN 0 ELSE 1 + IntBits(n \div 2)

\* the number of significant bits
WBits(a) == IF a[1] > 0 THEN 29 + IntBits(a[1]) ELSE IntBits(a[2])

\* a shifted right by n, bit 0 set when a nonzero bit was shifted out
WShrSticky(a, n) ==
    LET s == WShr(a, n)
    IN  IF WShl(s, n) = a THEN s
        ELSE IF WOdd(s) THEN s ELSE WAdd(s, WOne)

\* a shifted right by n >= 1 and rounded to nearest, ties to even
WShrRound(a, n) ==
    LET q == WShr(a, n)
        g == WShr(a, n - 1)
        up == WOdd(g) /\ (WShl(g, n - 1) # a \/ WOdd(q))
    IN  IF up THEN WAdd(q, WOne) ELSE q

\* A float64 >= 0 is [m, e] with value m * 2^e and 2^52 <= m < 2^53, or zero.
\* (Below, an operand or an intermediate value is bound by CHOOSE over the
\* one-element set that holds it, so that it is computed once.)
F64Zero == [m |-> WZero, e |-> 0]

\* the float64 nearest to m * 2^e, m # 0 (bit 0 of a long m may be a sticky bit)
F64Round(m, e) ==
    CHOOSE res \in
        {IF len <= 53 THEN [m |-> WShl(x, 53 - len), e |-> e - (53 - len)]
         ELSE LET q == WShrRound(x, len - 53)
              IN  IF WBits(q) > 53 THEN [m |-> WShr1(q), e |-> e + len - 52]
                  ELSE [m |-> q, e |-> e + len - 53] :
            x \in {m}, len \in {WBits(m)}} : TRUE

F64OfInt(n) == IF n = 0 THEN F64Zero ELSE F64Round(WOfInt(n), 0)
F64One == F64OfInt(1)

F64Lt(a, b) ==
    \E x \in {a}, y \in {b} :
        IF y.m = WZero THEN FALSE
        ELSE IF x.m = WZero THEN TRUE
        ELSE x.e < y.e \/ (x.e = y.e /\ WLt(x.m, y.m))

\* a + b
F64Add(a, b) ==
    CHOOSE res \in
        {IF x.m = WZero THEN y
         ELSE IF y.m = WZero THEN x
         ELSE LET big == IF F64Lt(x, y) THEN y ELSE x
                  small == IF F64Lt(x, y) THEN x ELSE y
              IN  F64Round(WAdd(WShl(big.m, 3),
                                WShrSticky(WShl(small.m, 3), big.e - small.e)),
                           big.e - 3) :
            x \in {a}, y \in {b}} : TRUE

\* a - b for a >= b
F64Sub(a, b) ==
    CHOOSE res \in
        {IF y.m = WZero THEN x
         ELSE IF WSub(WShl(x.m, 3), WShrSticky(WShl(y.m, 3), x.e - y.e)) = WZero
         THEN F64Zero
         ELSE F64Round(WSub(WShl(x.m, 3),
                            WShrSticky(WShl(y.m, 3), x.e - y.e)), x.e - 3) :
            x \in {a}, y \in {b}} : TRUE

\* one more quotient bit of r / d, for qr = <<quotient, remainder>>
DivBit(qr, d) ==
    LET r2 == WShl1(qr[2])
    IN  IF WLt(r2, d) THEN <<WShl1(qr[1]), r2>>
        ELSE <<WAdd(WShl1(qr[1]), WOne), WSub(r2, d)>>

\* 2, 4, ... 32 more quotient bits
DivBits2(st, d) ==
    CHOOSE res \in {DivBit(nxt, d) : nxt \in {DivBit(st, d)}} : TRUE

DivBits4(st, d) ==
    CHOOSE res \in {DivBits2(nxt, d) : nxt \in {DivBits2(st, d)}} : TRUE

DivBits8(st, d) ==
    CHOOSE res \in {DivBits4(nxt, d) : nxt \in {DivBits4(st, d)}} : TRUE

DivBits16(st, d) ==
    CHOOSE res \in {DivBits8(nxt, d) : nxt \in {DivBits8(st, d)}} : TRUE

DivBits32(st, d) ==
    CHOOSE res \in {DivBits16(nxt, d) : nxt \in {DivBits16(st, d)}} : TRUE

\* 55 more quotient bits
DivBits(qr, d) ==
    CHOOSE res \in
        {DivBit(s5, d) : s5 \in
            {DivBits2(s4, d) : s4 \in
                {DivBits4(s3, d) : s3 \in
                    {DivBits16(s2, d) : s2 \in {DivBits32(qr, d)}}}}} : TRUE

\* a / b for b > 0
F64Div(a, b) ==
    CHOOSE res \in
        {IF x.m = WZero THEN F64Zero
         ELSE CHOOSE quo \in
                 {F64Round(WAdd(WShl1(qr[1]),
                                IF qr[2] = WZero THEN WZero ELSE WOne),
                           x.e - y.e - 56) :
                     qr \in {IF WLt(x.m, y.m)
                             THEN DivBits(<<WZero, x.m>>, y.m)
                             ELSE DivBits(<<WOne, WSub(x.m, y.m)>>, y.m)}} : TRUE :
            x \in {a}, y \in {b}} : TRUE

\* one step of the shift-and-add product: st.acc holds the high bits, st.out
\* the two bits shifted out last followed by a sticky bit for the earlier ones
MulBit(st, am) ==
    LET acc1 == IF WOdd(st.bm) THEN WAdd(st.acc, am) ELSE st.acc
    IN  [acc |-> WShr1(acc1), bm |-> WShr1(st.bm),
         out |-> (IF WOdd(acc1) THEN 4 ELSE 0) + (st.out \div 4) * 2
                 + (IF st.out % 4 # 0 THEN 1 ELSE 0)]

\* 2, 4, ... 32 steps
MulBits2(st, am) ==
    CHOOSE res \in {MulBit(nxt, am) : nxt \in {MulBit(st, am)}} : TRUE

MulBits4(st, am) ==
    CHOOSE res \in {MulBits2(nxt, am) : nxt \in {MulBits2(st, am)}} : TRUE

MulBits8(st, am) ==
    CHOOSE res \in {MulBits4(nxt, am) : nxt \in {MulBits4(st, am)}} : TRUE

MulBits16(st, am) ==
    CHOOSE res \in {MulBits8(nxt, am) : nxt \in {MulBits8(st, am)}} : TRUE

MulBits32(st, am) ==
    CHOOSE res \in {MulBits16(nxt, am) : nxt \in {MulBits16(st, am)}} : TRUE

\* the 53 steps of a product
MulBits(st, am) ==
    CHOOSE res \in
        {MulBit(s4, am) : s4 \in
            {MulBits4(s3, am) : s3 \in
                {MulBits16(s2, am) : s2 \in {MulBits32(st, am)}}}} : TRUE

\* a * b
F64Mul(a, b) ==
    CHOOSE res \in
        {IF x.m = WZero \/ y.m = WZero THEN F64Zero
         ELSE CHOOSE prod \in
                 {F64Round(WAdd(WShl(st.acc, 3), <<0, st.out>>),
                           x.e + y.e + 50) :
                     st \in {MulBits([acc |-> WZero, bm |-> y.m, out |-> 0],
                                     x.m)}} : TRUE :
            x \in {a}, y \in {b}} : TRUE

\* np.rint, for values below 2^29: the nearest integer, ties to even
F64Rint(x) ==
    CHOOSE res \in
        {IF v.m = WZero \/ v.e < -53 THEN 0
         ELSE IF v.e >= 0 THEN WShl(v.m, v.e)[2]
         ELSE WShrRound(v.m, -v.e)[2] : v \in {x}} : TRUE

\* the float64 p / q of two integers, as true_divide computes it
F64Ratio(p, q) == F64Div(F64OfInt(p), F64OfInt(q))

\* x ** sigma for sigma in {0, 1, 2}, the exponents numpy computes without
\* calling pow: ones, a copy and the square
F64Pow(x, sigma) ==
    IF sigma = 0 THEN F64One
    ELSE IF sigma = 1 THEN x
    ELSE F64Mul(x, x)

\* ------------------------------------------------ float16 (torch.half)
\* A half >= 0 is the integer number of units of 2^-24 it holds.
HalfUnit == Pow(2, 24)

\* the half nearest to the integer n of units (ties to even): exact below
\* 2^11 units, 11 significant bits above
Round16(n) ==
    CHOOSE res \in
        {IF v < Pow(2, 11) THEN v
         ELSE CHOOSE h \in
                 {LET q == v \div sp
                      r == v % sp
                  IN  (IF 2 * r > sp \/ (2 * r = sp /\ q % 2 = 1)
                       THEN q + 1 ELSE q) * sp :
                     sp \in {Pow(2, IntBits(v) - 11)}} : TRUE :
            v \in {n}} : TRUE

\* quotient bits of p / q until 12 are significant or 25 fractional bits are
\* out: <<bits, remainder, fractional bits>>
RECURSIVE HalfBits(_, _, _, _)
HalfBits(f, r, q, n) ==
    IF f >= Pow(2, 11) \/ n = 25 THEN <<f, r, n>>
    ELSE IF 2 * r >= q THEN HalfBits(2 * f + 1, 2 * r - q, q, n + 1)
    ELSE HalfBits(2 * f, 2 * r, q, n + 1)

\* the half nearest to p / q, for 0 <= p / q < 128 and 0 < q < 2^30
HalfOfRatio(p, q) ==
    CHOOSE res \in
        {LET n0 == t[1] \div 2
             up == t[1] % 2 = 1 /\ (t[2] # 0 \/ n0 % 2 = 1)
         IN  (IF up THEN n0 + 1 ELSE n0) * Pow(2, 25 - t[3]) :
            t \in {HalfBits(p \div q, p % q, q, 0)}} : TRUE

\* ------------------------------------------------------- get_tile_weighting
\* np.clip(w, 1e-3, 1)
ClipMutNoFloor(w) ==
    CHOOSE res \in {IF F64Lt(F64One, v) THEN F64One ELSE v : v \in {w}} : TRUE

Clip(w) ==
    CHOOSE res \in
        {IF F64Lt(v, lo) THEN lo
         ELSE IF F64Lt(F64One, v) THEN F64One
         ELSE v : v \in {w}, lo \in {F64Ratio(1, 1000)}} : TRUE

\* the entry, in thousandths after np.round(w, 3), of a cell whose nearest
\* edge is w0 cells away; alpha and eps are <<num, den>>, sigma in {0, 1, 2}
KernelValue(w0, size, sigma, alpha, eps) ==
    LET half == size \div 2
        fa == F64Ratio(alpha[1], alpha[2])
        fe == F64Ratio(eps[1], eps[2])
        \* (w / w.max()) ** sigma, its minimum (at the border) and maximum
        w == F64Pow(F64Ratio(w0, half), sigma)
        mn == F64Pow(F64Ratio(1, half), sigma)
        mx == F64Pow(F64One, sigma)
        scaled == F64Div(F64Add(F64Sub(w, mn), fe), F64Add(F64Sub(mx, mn), fe))
    IN  CHOOSE k \in
            {F64Rint(F64Mul(Clip(F64Div(IF F64Lt(a, v) THEN F64One ELSE v, a)),
                            F64OfInt(1000))) :
                v \in {scaled}, a \in {fa}} : TRUE

\* the kernel raises for odd or empty sizes (np.minimum cannot broadcast x
\* against x.T, or w.max() of an empty array)
KernelDefined(size) == size >= 2 /\ size % 2 = 0

\* one kernel entry in thousandths, before the cast to float16
KernelEntry(i, j, size, sigma, alpha, eps) ==
    KernelValue(Min(EdgeDist(i, size), EdgeDist(j, size)), size, sigma, alpha, eps)

\* the float16 array returned, in units of 2^-24
get_tile_weighting(size, sigma, alpha, eps) ==
    CHOOSE w \in
        {[q \in (0..(size - 1)) \X (0..(size - 1)) |->
             prof[Min(EdgeDist(q[1], size), EdgeDist(q[2], size))]] :
            prof \in {[w0 \in 1..(size \div 2) |->
                         HalfOfRatio(KernelValue(w0, size, sigma, alpha, eps),
                                     1000)]}} : TRUE

\* ------------------------------------------- predict_entire_mask_downscaled
Pixels(size) == (0..(size[1] - 1)) \X (0..(size[2] - 1))

\* DataLoader(dataset, batch_size, shuffle=False): the dataset indices (from 1)
\* of the batch that follows the i items already yielded; <<>> when exhausted
LoaderBatch(n, bs, i) == [k \in 1..Min(bs, n - i) |-> i + k]

\* the external model with its sigmoid, taken as the first channel of each pixel
Infer(val) == [q \in DOMAIN val |-> val[q][1]]

\* torch.flip over the axes in f (1: the last axis, 2: the one before)
Flip(val, rows, cols, f) ==
    [q \in DOMAIN val |->
        val[<<IF 2 \in f THEN rows - 1 - q[1] ELSE q[1],
              IF 1 \in f THEN cols - 1 - q[2] ELSE q[2]>>]]

FLIPS == <<{1}, {2}, {1, 2}>>

\* pred for one tile: model output, averaged with the un-flipped outputs on
\* the flipped inputs when tta
TilePredMutSum(img, useTta) ==
    LET plain == Infer(img.val)
        fl(k) == Flip(Infer(Flip(img.val, img.rows, img.cols, FLIPS[k])),
                      img.rows, img.cols, FLIPS[k])
    IN  IF useTta
        THEN [q \in DOMAIN img.val |->
                plain[q] + fl(1)[q] + fl(2)[q] + fl(3)[q]]
        ELSE plain

TilePred(img, useTta) ==
    LET plain == Infer(img.val)
        fl(k) == Flip(Infer(Flip(img.val, img.rows, img.cols, FLIPS[k])),
                      img.rows, img.cols, FLIPS[k])
    IN  IF useTta
        THEN [q \in DOMAIN img.val |->
                (plain[q] + fl(1)[q] + fl(2)[q] + fl(3)[q]) \div (Len(FLIPS) + 1)]
        ELSE plain

\* buf[x0:x1, y0:y1] += tile on a torch.half buffer: every sum is rounded
\* to a half as it is stored
AddTile(buf, pos, tile) ==
    [q \in DOMAIN buf |->
        IF pos[1] <= q[1] /\ q[1] < pos[2] /\ pos[3] <= q[2] /\ q[2] < pos[4]
        THEN Round16(buf[q] + tile[<<q[1] - pos[1], q[2] - pos[3]>>])
        ELSE buf[q]]

\* (pred * weighting_cuda).half(): the float32 product, rounded to a half
WeightedTile(val, w) == [q \in DOMAIN w |-> Round16(val[q] * w[q])]

\* for tile_idx, (x0, x1, y0, y1) in enumerate(pos): the prediction paired
\* with the k-th position of the batch
PredOfMutFirst(preds, k) == preds[1]
PredOf(preds, k) == preds[k]

\* the inner for loop over one batch, from tile k on
RECURSIVE AccumulateFrom(_, _, _, _)
AccumulateFrom(acc, items, preds, k) ==
    IF k > Len(items) THEN acc
    ELSE LET pos == items[k].pos
             pr == PredOf(preds, k)
         IN  CHOOSE res \in
                 {AccumulateFrom(nxt, items, preds, k + 1) :
                     nxt \in {[pred |-> AddTile(acc.pred, pos,
                                           WeightedTile(pr.val, weighting)),
                               counter |-> AddTile(acc.counter, pos, weighting),
                               log |-> Append(acc.log,
                                          [pos |-> pos, src |-> pr.src,
                                           val |-> pr.val])]}} : TRUE

\* torch.div on halves, the quotient a half again (in units of 2^-24): x / 0
\* is nan for x = 0 and inf otherwise
TorchDiv(s, c) ==
    IF c = 0 THEN [kind |-> IF s = 0 THEN "nan" ELSE "inf", val |-> 0]
    ELSE [kind |-> "num", val |-> HalfOfRatio(s, c)]

\* overlap factors n/d in lowest terms, d in {1, 2}: 1/2, 1, 3/2, 2, 3, ...
OverlapFactors ==
    {of \in (1..MaxOverlapNum) \X (1..2) : Gcd(of[1], of[2]) = 1}

\* test images: uniform ones and a checkerboard
ImageLib(size) ==
    {[q \in Pixels(size) |-> v] : v \in 0..MaxPixel}
    \cup {[q \in Pixels(size) |-> (q[1] + q[2]) % 2]}

\* the TIFF files read: rows x columns x 3 with the three channels equal
TiffFiles ==
    UNION {{[shape |-> <<sz[1], sz[2], 3>>, grey |-> g] : g \in ImageLib(sz)} :
              sz \in (1..MaxDim) \X (1..MaxDim)}

\* ndarray.squeeze() on a shape: the axes of length 1 removed
Squeeze(shape) == SelectSeq(shape, LAMBDA d : d # 1)

\* simple_load: the squeezed array, its axes rotated by transpose(1, 2, 0) when
\* the first is 3 long.  ok is FALSE when transpose raises ValueError, the
\* array having fewer than three axes.  A pixel of a three-dimensional array
\* is its three channels, an entry of a two-dimensional one a single value.
simple_load(file) ==
    LET sq == Squeeze(file.shape)
    IN  IF sq[1] = 3
        THEN IF Len(sq) # 3 THEN [ok |-> FALSE, shape |-> sq, val |-> <<>>]
             ELSE [ok |-> TRUE, shape |-> <<sq[2], sq[3], sq[1]>>,
                   val |-> [q \in Pixels(<<sq[2], sq[3]>>) |->
                              <<file.grey[<<0, q[1]>>], file.grey[<<1, q[1]>>],
                                file.grey[<<2, q[1]>>]>>]]
        ELSE IF Len(sq) = 2
        THEN [ok |-> TRUE, shape |-> sq,
              val |-> [q \in Pixels(sq) |->
                         IF file.shape[1] = 1 THEN file.grey[<<0, q[1]>>]
                         ELSE file.grey[<<q[1], 0>>]]]
        ELSE [ok |-> TRUE, shape |-> sq,
              val |-> [q \in Pixels(sq) |->
                         <<file.grey[q], file.grey[q], file.grey[q]>>]]

\* InferenceDataset.__init__ (reduce_factor = 1, as validate() builds it),
\* followed by the arguments of the predict call
InferInit ==
    /\ tile_size \in 1..MaxTile
    /\ overlap_factor \in OverlapFactors
    /\ batch_size \in 1..MaxBatch
    /\ tta \in BOOLEAN
    /\ \E file \in TiffFiles :
          LET img == simple_load(file)
          IN  IF ~img.ok
              THEN \* transpose on fewer than three axes
                   /\ original_img = <<>>
                   /\ orig_size = <<0, 0>>
                   /\ positions = <<>>
                   /\ ppc = "error"
                   /\ perror = "ValueError"
              ELSE /\ original_img = img.val
                   /\ orig_size = img.shape
                   /\ IF Step(tile_size, overlap_factor) = 0
                      THEN \* np.arange with a zero step
                           /\ positions = <<>>
                           /\ ppc = "error"
                           /\ perror = "ZeroDivisionError"
                      ELSE /\ positions = get_positions(orig_size, tile_size,
                                                        overlap_factor)
                           /\ ppc = "start"
                           /\ perror = "none"
    /\ loader_i = 0
    /\ weighting = <<>>
    /\ global_pred = <<>>
    /\ global_counter = <<>>
    /\ accumulated = <<>>

\* get_tile_weighting(dataset.tile_size, sigma=1, alpha=1), eps left to its
\* default 1e-6: the kernel of line 57, by tile size
TileWeightings ==
    [sz \in 1..MaxTile |->
        IF KernelDefined(sz)
        THEN get_tile_weighting(sz, 1, <<1, 1>>, <<1, 1000000>>) ELSE <<>>]

\* lines 55-70: the loader, the kernel and the two zero buffers
PredictStart ==
    /\ ppc = "start"
    /\ IF KernelDefined(tile_size)
       THEN /\ weighting' = TileWeightings[tile_size]
            /\ global_pred' = [q \in Pixels(orig_size) |-> 0]
            /\ global_counter' = [q \in Pixels(orig_size) |-> 0]
            /\ ppc' = "loop"
            /\ UNCHANGED perror
       ELSE /\ ppc' = "error"
            /\ perror' = "ValueError"
            /\ UNCHANGED <<weighting, global_pred, global_counter>>
    /\ UNCHANGED <<original_img, orig_size, tile_size, overlap_factor, positions,
                   batch_size, tta, loader_i, accumulated, trainVars, kernelVars>>

\* lines 72-94: one iteration of "for img, pos in loader"
PredictBatch ==
    /\ ppc = "loop"
    /\ LoaderBatch(Len(positions), batch_size, loader_i) # <<>>
    /\ LET idxs == LoaderBatch(Len(positions), batch_size, loader_i)
           items == [k \in 1..Len(idxs) |-> DatasetItem(idxs[k])]
           fits == \A k \in 1..Len(items) :
                      /\ items[k].img.rows = tile_size
                      /\ items[k].img.cols = tile_size
           preds == [k \in 1..Len(items) |->
                       [val |-> TilePred(items[k].img, tta),
                        src |-> items[k].img.src]]
           acc == AccumulateFrom([pred |-> global_pred, counter |-> global_counter,
                                  log |-> accumulated], items, preds, 1)
       IN  IF Len(orig_size) = 2
           THEN \* dataset[idx] indexes a two-dimensional image three times
                /\ ppc' = "error"
                /\ perror' = "IndexError"
                /\ UNCHANGED <<global_pred, global_counter, accumulated, loader_i>>
           ELSE IF fits
           THEN /\ global_pred' = acc.pred
                /\ global_counter' = acc.counter
                /\ accumulated' = acc.log
                /\ loader_i' = loader_i + Len(idxs)
                /\ UNCHANGED <<ppc, perror>>
           ELSE \* a tile smaller than the kernel: pred * weighting_cuda or the
                \* in-place add cannot broadcast
                /\ ppc' = "error"
                /\ perror' = "RuntimeError"
                /\ UNCHANGED <<global_pred, global_counter, accumulated, loader_i>>
    /\ UNCHANGED <<original_img, orig_size, tile_size, overlap_factor, positions,
                   batch_size, tta, weighting, trainVars, kernelVars>>

\* lines 96-99: the row-wise division once the loader is exhausted
PredictDivide ==
    /\ ppc = "loop"
    /\ LoaderBatch(Len(positions), batch_size, loader_i) = <<>>
    /\ global_pred' = [q \in Pixels(orig_size) |->
                          TorchDiv(global_pred[q], global_counter[q])]
    /\ ppc' = "done"
    /\ UNCHANGED <<original_img, orig_size, tile_size, overlap_factor, positions,
                   batch_size, tta, loader_i, weighting, global_counter,
                   accumulated, perror, trainVars, kernelVars>>


\* ======================================================== InMemoryTrainDataset

MaxImages == 5       \* len(train_img_names) ranges over 1..MaxImages
MaxFoldArg == 1      \* update_fold_nb is called with fold_nb in 0..MaxFoldArg or NumFolds
MaxIdx == 1          \* __getitem__ is called with idx in 0..MaxIdx
MaxImgDim == 47      \* image sides range over MaxImgDim-2..MaxImgDim
TrainTileSize == 30  \* the train_tile_size the dataset is built with
RandDen == 3         \* np.random.rand() ranges over k/RandDen, 0 <= k < RandDen

NumFolds == 5        \* "5 fold cv hard coded"
VisibleFloor == 2000 \* the pixel count of the visible mode
NumPseudo == 7       \* len(self.pseudo_images_names)

None == <<0, 0>>
Lt(a, b) == a[1] * b[2] < b[1] * a[2]
Gt(a, b) == a[1] * b[2] > b[1] * a[2]

\* the values np.random.rand() is taken to return
Draws == {<<k, RandDen>> : k \in 0..(RandDen - 1)}

\* self.before_crop_size = int(1.5 * self.train_tile_size)
before_crop_sizeMutNoMargin == TrainTileSize

before_crop_size == (3 * TrainTileSize) \div 2

\* ------------------------------------------------------------------ rasters
\* A binary raster is [h, w, rects]: the pixels inside one of the disjoint
\* rectangles <<r0, r1, c0, c1>> (half-open) of the sequence rects are 1, the
\* others 0.
At(m, x, y) ==
    IF \E k \in 1..Len(m.rects) :
          LET r == m.rects[k]
          IN  r[1] <= x /\ x < r[2] /\ r[3] <= y /\ y < r[4]
    THEN 1 ELSE 0

\* the sum of row x of the raster over the columns ca..cb-1: the rectangles
\* are disjoint, so each contributes the columns it shares with the range
RECURSIVE RowSum(_, _, _, _, _)
RowSum(m, x, ca, cb, k) ==
    IF k > Len(m.rects) THEN 0
    ELSE LET r == m.rects[k]
         IN  (IF r[1] <= x /\ x < r[2]
              THEN Max(0, Min(cb, r[4]) - Max(ca, r[3])) ELSE 0)
             + RowSum(m, x, ca, cb, k + 1)

RECURSIVE SumRows(_, _, _, _, _)
SumRows(m, x, xb, ca, cb) ==
    IF x >= xb THEN 0
    ELSE RowSum(m, x, ca, cb, 1) + SumRows(m, x + 1, xb, ca, cb)

\* m[xa:xb, ya:yb].sum(), the slice clipped to the raster as numpy clips it
SliceSum(m, xa, xb, ya, yb) ==
    SumRows(m, NormIdx(xa, m.h), NormIdx(xb, m.h), NormIdx(ya, m.w), NormIdx(yb, m.w))

EmptyMask(size) == [h |-> size[1], w |-> size[2], rects |-> <<>>]
BlobMask(size) == [h |-> size[1], w |-> size[2], rects |-> <<<<21, 25, 21, 25>>>>]
FullMask(size) == [h |-> size[1], w |-> size[2], rects |-> <<<<0, size[1], 0, size[2]>>>>]
\* 44 rows of 45 pixels and 20 (resp. 21) pixels of the next row
Mask2000(size) ==
    [h |-> size[1], w |-> size[2], rects |-> <<<<0, 44, 0, 45>>, <<44, 45, 0, 20>>>>]
Mask2001(size) ==
    [h |-> size[1], w |-> size[2], rects |-> <<<<0, 44, 0, 45>>, <<44, 45, 0, 21>>>>]

\* skimage's convex_hull_image, on the rasters it leaves unchanged (the empty
\* raster and single rectangles)
convex_hull_image(m) == m


\* ------------------------------------------------------------ the loaded data
\* the images, by position in train_img_names: sides around the crop size,
\* the fourth one too small for a crop
ImageSizeOf(i) ==
    CASE i % 4 = 0 -> <<MaxImgDim - 1, MaxImgDim - 1>>
      [] i % 4 = 1 -> <<MaxImgDim, MaxImgDim - 1>>
      [] i % 4 = 2 -> <<MaxImgDim - 1, MaxImgDim>>
      [] OTHER -> <<MaxImgDim - 2, MaxImgDim - 1>>

MaskOf(i, mode) ==
    LET size == ImageSizeOf(i)
    IN  CASE i % 5 = 0 -> IF mode = "convhull" THEN FullMask(size) ELSE Mask2001(size)
          [] i % 5 = 1 -> EmptyMask(size)
          [] i % 5 = 2 -> IF mode = "convhull" THEN BlobMask(size) ELSE Mask2000(size)
          [] i % 5 = 3 -> FullMask(size)
          [] OTHER -> BlobMask(size)

PseudoSizeOf(j) ==
    IF j % 2 = 0 THEN <<MaxImgDim - 1, MaxImgDim - 1>>
    ELSE <<MaxImgDim - 1, MaxImgDim>>

\* load_pseudo_masks(fold_nb, soft_labels): the masks stored for this fold
load_pseudo_masks(fold_nb) ==
    [j1 \in 1..NumPseudo |->
        LET size == PseudoSizeOf(j1 - 1)
            c == (j1 - 1 + fold_nb) % 4
        IN  CASE c = 0 -> Mask2001(size)
              [] c = 1 -> EmptyMask(size)
              [] c = 2 -> FullMask(size)
              [] OTHER -> Mask2000(size)]

\* the pseudo-label files exist for the folds of the 5-fold scheme only;
\* glob(...)[0] raises IndexError for any other fold_nb
PseudoFilesExist(fold_nb) == fold_nb \in 0..(NumFolds - 1)

\* ------------------------------------------------------------ update_fold_nb
\* [tile_nb for tile_nb in range(n) if keep(tile_nb)], in increasing order
RECURSIVE Filter(_, _, _, _)
Filter(n, fold_nb, keepEqual, i) ==
    IF i >= n THEN <<>>
    ELSE (IF (i % NumFolds = fold_nb) = keepEqual THEN <<i>> ELSE <<>>)
         \o Filter(n, fold_nb, keepEqual, i + 1)

TrainIdxMutAll(n, fold_nb) == [i \in 1..n |-> i - 1]
TrainIdx(n, fold_nb) == Filter(n, fold_nb, FALSE, 0)
ValidIdx(n, fold_nb) == Filter(n, fold_nb, TRUE, 0)

\* --------------------------------------------------------------------- train
\* area / sum of areas for the images of used, in increasing index order
RECURSIVE SumAreas(_, _)
SumAreas(used, k) ==
    IF k > Len(used) THEN 0
    ELSE image_sizes[used[k] + 1][1] * image_sizes[used[k] + 1][2]
         + SumAreas(used, k + 1)

SamplingProbs(used) ==
    [k \in 1..Len(used) |->
        <<image_sizes[used[k] + 1][1] * image_sizes[used[k] + 1][2],
          SumAreas(used, 1)>>]

\* ------------------------------------------------------- accept_tile_policy
Center(a, b) == (a + b) \div 2

\* the outcome of one call: the value returned, whether np.random.rand() was
\* drawn, and the exception raised instead, if any
Outcome(ret, drew, err) == [ret |-> ret, drew |-> drew, err |-> err]

SoftReject(u) == Outcome(Gt(u, sampling_thresh), TRUE, "none")

VisibleTestMutGe(m, xa, xb, ya, yb) == SliceSum(m, xa, xb, ya, yb) >= VisibleFloor
VisibleTest(m, xa, xb, ya, yb) == SliceSum(m, xa, xb, ya, yb) > VisibleFloor

accept_tile_policyMutNoShortcut(nb, xa, xb, ya, yb, pseudo, u) ==
    IF FALSE THEN Outcome(TRUE, FALSE, "none")
    ELSE CASE sampling_mode = "centered" ->
                LET m == IF pseudo THEN pseudo_masks[nb + 1] ELSE masks[nb + 1]
                IN  IF At(m, Center(xa, xb), Center(ya, yb)) # 0
                    THEN Outcome(TRUE, FALSE, "none")
                    ELSE SoftReject(u)
           [] sampling_mode = "convhull" ->
                IF pseudo \/ At(conv_hulls[nb + 1], Center(xa, xb), Center(ya, yb)) # 0
                THEN Outcome(TRUE, FALSE, "none")
                ELSE SoftReject(u)
           [] sampling_mode = "visible" ->
                IF nb + 1 > Len(masks) THEN Outcome(FALSE, FALSE, "IndexError")
                ELSE IF VisibleTest(masks[nb + 1], xa, xb, ya, yb)
                THEN Outcome(TRUE, FALSE, "none")
                ELSE SoftReject(u)
           [] OTHER -> SoftReject(u)


accept_tile_policy(nb, xa, xb, ya, yb, pseudo, u) ==
    IF sampling_thresh[1] = 0 THEN Outcome(TRUE, FALSE, "none")
    ELSE CASE sampling_mode = "centered" ->
                LET m == IF pseudo THEN pseudo_masks[nb + 1] ELSE masks[nb + 1]
                IN  IF At(m, Center(xa, xb), Center(ya, yb)) # 0
                    THEN Outcome(TRUE, FALSE, "none")
                    ELSE SoftReject(u)
           [] sampling_mode = "convhull" ->
                IF pseudo \/ At(conv_hulls[nb + 1], Center(xa, xb), Center(ya, yb)) # 0
                THEN Outcome(TRUE, FALSE, "none")
                ELSE SoftReject(u)
           [] sampling_mode = "visible" ->
                \* condition is computed from the tile's own mask and not
                \* used; the test reads self.masks[image_nb]
                IF nb + 1 > Len(masks) THEN Outcome(FALSE, FALSE, "IndexError")
                ELSE IF VisibleTest(masks[nb + 1], xa, xb, ya, yb)
                THEN Outcome(TRUE, FALSE, "none")
                ELSE SoftReject(u)
           [] OTHER -> Outcome(TRUE, FALSE, "none")


\* ------------------------------------------------------------------ actions
SamplingModes == {"centered", "convhull", "random", "visible"}
Thresholds == {<<0, 1>>, <<1, 2>>, <<1, 1>>}
\* use_external and use_pseudo_label: both unset, or both one half
AuxConfigs == {None, <<1, 2>>}

\* the folds update_fold_nb is called with: some valid ones and NumFolds,
\* which is outside [0, NumFolds)
FoldArgs == (0..MaxFoldArg) \cup {NumFolds}

ItemReset ==
    /\ image_nb' = -1
    /\ is_pseudo' = FALSE
    /\ x1' = -1
    /\ y1' = -1
    /\ should_keep' = None
    /\ is_point_ok' = FALSE

Raise(name) ==
    /\ gpc' = "error"
    /\ terror' = name

\* InMemoryTrainDataset.__init__ with fold_nb = 0: the data is loaded, then
\* update_fold_nb(0) and train(True)
TrainInit ==
    /\ \E n \in 1..MaxImages :
          /\ train_img_names = [i \in 1..n |-> i - 1]
          /\ image_sizes = [i \in 1..n |-> ImageSizeOf(i - 1)]
    /\ sampling_mode \in SamplingModes
    /\ on_spot_sampling \in Thresholds
    /\ use_external \in AuxConfigs
    /\ use_pseudo_label = use_external
    /\ masks = [i \in 1..Len(train_img_names) |-> MaskOf(i - 1, sampling_mode)]
    /\ conv_hulls = IF sampling_mode = "convhull"
                    THEN [i \in 1..Len(masks) |-> convex_hull_image(masks[i])]
                    ELSE <<>>
    /\ pseudo_img_sizes = IF use_pseudo_label # None
                          THEN [j1 \in 1..NumPseudo |-> PseudoSizeOf(j1 - 1)]
                          ELSE <<>>
    /\ train_img_idx = TrainIdx(Len(train_img_names), 0)
    /\ valid_img_idx = ValidIdx(Len(train_img_names), 0)
    /\ pseudo_masks = IF use_pseudo_label # None THEN load_pseudo_masks(0) ELSE <<>>
    /\ used_img_idx = train_img_idx
    /\ sampling_thresh = on_spot_sampling
    /\ sampling_probs = SamplingProbs(used_img_idx)
    /\ image_nb = -1
    /\ is_pseudo = FALSE
    /\ x1 = -1
    /\ y1 = -1
    /\ should_keep = None
    /\ is_point_ok = FALSE
    /\ gpc = "idle"
    /\ terror = "none"

\* update_fold_nb(fold_nb)
update_fold_nb(fold_nb) ==
    /\ gpc = "idle"
    /\ train_img_idx' = TrainIdx(Len(train_img_names), fold_nb)
    /\ valid_img_idx' = ValidIdx(Len(train_img_names), fold_nb)
    /\ IF use_pseudo_label # None
       THEN IF PseudoFilesExist(fold_nb)
            THEN /\ pseudo_masks' = load_pseudo_masks(fold_nb)
                 /\ UNCHANGED <<gpc, terror>>
            ELSE \* pseudo_masks was emptied before the first glob(...)[0]
                 /\ pseudo_masks' = <<>>
                 /\ Raise("IndexError")
       ELSE UNCHANGED <<pseudo_masks, gpc, terror>>
    /\ UNCHANGED <<dataVars, modeVars, itemVars, inferVars, kernelVars>>

\* load_pseudo_images(), lines 314-355, with no external image listed: the
\* sizes of the pseudo images are stored again and ext_masks is set (empty)
load_pseudo_images ==
    /\ gpc = "idle"
    /\ pseudo_img_sizes' = [j1 \in 1..NumPseudo |-> PseudoSizeOf(j1 - 1)]
    /\ UNCHANGED <<train_img_names, image_sizes, masks, conv_hulls,
                   sampling_mode, on_spot_sampling, use_external,
                   use_pseudo_label>>
    /\ UNCHANGED <<foldVars, modeVars, itemVars, gpc, terror, inferVars,
                   kernelVars>>

\* load_pseudo_masks(fold_nb, soft_labels) called on its own, lines 357-375:
\* pseudo_masks is emptied and refilled.  glob(...)[0] raises IndexError when
\* the fold has no file, soft labels raise NotImplementedError before the first
\* mask is appended, and the final extend raises AttributeError when
\* load_pseudo_images never ran, ext_masks not being set.
LoadPseudoMasks(fold_nb, soft_labels) ==
    /\ gpc = "idle"
    /\ IF ~PseudoFilesExist(fold_nb)
       THEN /\ pseudo_masks' = <<>>
            /\ Raise("IndexError")
       ELSE IF soft_labels
       THEN /\ pseudo_masks' = <<>>
            /\ Raise("NotImplementedError")
       ELSE /\ pseudo_masks' = load_pseudo_masks(fold_nb)
            /\ IF pseudo_img_sizes = <<>>
               THEN Raise("AttributeError")
               ELSE UNCHANGED <<gpc, terror>>
    /\ UNCHANGED <<train_img_idx, valid_img_idx>>
    /\ UNCHANGED <<dataVars, modeVars, itemVars, inferVars, kernelVars>>

\* train(is_train)
train(is_train) ==
    /\ gpc = "idle"
    /\ IF is_train
       THEN /\ used_img_idx' = train_img_idx
            /\ sampling_thresh' = on_spot_sampling
            /\ sampling_probs' = SamplingProbs(train_img_idx)
       ELSE /\ used_img_idx' = valid_img_idx
            /\ sampling_thresh' = <<0, 1>>
            /\ UNCHANGED sampling_probs
    /\ UNCHANGED <<dataVars, foldVars, itemVars, gpc, terror, inferVars, kernelVars>>

\* self.used_img_idx[idx % len(self.used_img_idx)]
UniformChoice(idx) == used_img_idx[(idx % Len(used_img_idx)) + 1]

\* __getitem__(idx), lines 486-511: the choice of the image
GetItemBegin(idx) ==
    /\ gpc = "idle"
    /\ UNCHANGED <<dataVars, foldVars, modeVars, x1, y1, should_keep,
                   is_point_ok, inferVars, kernelVars>>
    /\ IF sampling_thresh[1] = 0
       THEN \* take uniformly from images for validation
            IF Len(used_img_idx) = 0
            THEN /\ Raise("ZeroDivisionError")
                 /\ UNCHANGED <<image_nb, is_pseudo>>
            ELSE /\ image_nb' = UniformChoice(idx)
                 /\ is_pseudo' = FALSE
                 /\ gpc' = "loop"
                 /\ UNCHANGED terror
       ELSE \E should_use_ext \in Draws, should_use_pseudo \in Draws :
              IF use_external # None /\ Lt(should_use_ext, use_external)
              THEN \* return self.__get_external_item__()
                   /\ gpc' = "external"
                   /\ UNCHANGED <<image_nb, is_pseudo, terror>>
              ELSE IF use_pseudo_label # None /\ Lt(should_use_pseudo, use_pseudo_label)
              THEN \E j \in 0..(NumPseudo - 1) :
                     /\ image_nb' = j
                     /\ is_pseudo' = TRUE
                     /\ gpc' = "loop"
                     /\ UNCHANGED terror
              ELSE IF Len(used_img_idx) = 0 \/ Len(sampling_probs) # Len(used_img_idx)
              THEN \* np.random.choice over an empty range, or p of another length
                   /\ Raise("ValueError")
                   /\ UNCHANGED <<image_nb, is_pseudo>>
              ELSE \E k \in 1..Len(used_img_idx) :
                     /\ sampling_probs[k][1] > 0
                     /\ image_nb' = used_img_idx[k]
                     /\ is_pseudo' = FALSE
                     /\ gpc' = "loop"
                     /\ UNCHANGED terror

\* get_img_dim(img_nb, is_pseudo)
get_img_dim(img_nb, pseudo) ==
    IF pseudo THEN pseudo_img_sizes[img_nb + 1] ELSE image_sizes[img_nb + 1]

\* one iteration of "while not is_point_ok", lines 513-521
Propose ==
    /\ gpc = "loop"
    /\ UNCHANGED <<dataVars, foldVars, modeVars, image_nb, is_pseudo, inferVars, kernelVars>>
    /\ LET img_dim == get_img_dim(image_nb, is_pseudo)
       IN  IF img_dim[1] - before_crop_size <= 0 \/ img_dim[2] - before_crop_size <= 0
           THEN \* np.random.randint(high) with high <= 0
                /\ Raise("ValueError")
                /\ UNCHANGED <<x1, y1, should_keep, is_point_ok>>
           ELSE \E xa \in 0..(img_dim[1] - before_crop_size - 1),
                   ya \in 0..(img_dim[2] - before_crop_size - 1),
                   u \in Draws :
                  LET r == accept_tile_policy(image_nb, xa, xa + before_crop_size,
                                              ya, ya + before_crop_size, is_pseudo, u)
                  IN  /\ x1' = xa
                      /\ y1' = ya
                      /\ IF r.err # "none"
                         THEN /\ Raise(r.err)
                              /\ UNCHANGED <<should_keep, is_point_ok>>
                         ELSE /\ should_keep' = IF r.drew THEN u ELSE None
                              /\ is_point_ok' = r.ret
                              /\ gpc' = IF r.ret THEN "select" ELSE "loop"
                              /\ UNCHANGED terror

\* lines 523-530 (select_tile, transforms, return), or the return of the
\* external item
GetItemReturn ==
    /\ gpc \in {"select", "external"}
    /\ gpc' = "idle"
    /\ ItemReset
    /\ UNCHANGED <<dataVars, foldVars, modeVars, terror, inferVars, kernelVars>>

TrainOff ==
    /\ train_img_names = <<>> /\ image_sizes = <<>> /\ masks = <<>>
    /\ conv_hulls = <<>> /\ pseudo_img_sizes = <<>> /\ pseudo_masks = <<>>
    /\ sampling_mode = "random" /\ on_spot_sampling = <<0, 1>>
    /\ use_external = None /\ use_pseudo_label = None
    /\ train_img_idx = <<>> /\ valid_img_idx = <<>> /\ used_img_idx = <<>>
    /\ sampling_thresh = <<0, 1>> /\ sampling_probs = <<>>
    /\ image_nb = -1 /\ is_pseudo = FALSE /\ x1 = -1 /\ y1 = -1
    /\ should_keep = None /\ is_point_ok = FALSE
    /\ gpc = "off" /\ terror = "none"

InferOff ==
    /\ original_img = <<>> /\ orig_size = <<0, 0>> /\ tile_size = 0
    /\ overlap_factor = <<1, 1>> /\ positions = <<>> /\ batch_size = 0
    /\ tta = FALSE /\ loader_i = 0 /\ weighting = <<>> /\ global_pred = <<>>
    /\ global_counter = <<>> /\ accumulated = <<>> /\ ppc = "off"
    /\ perror = "none"

\* ------------------------------------------- get_tile_weighting on its own
MaxKernelSize == 6   \* size ranges over 1..MaxKernelSize

\* the values of sigma, alpha and eps the kernel is built with (alpha and eps
\* positive rationals)
KernelSigmas == {0, 1, 2}
KernelAlphas == {<<1, 2>>, <<1, 1>>, <<2, 1>>}
KernelEps == {<<1, 1000000>>, <<1, 10>>}

KernelInit ==
    /\ arg_size \in 1..MaxKernelSize
    /\ arg_sigma \in KernelSigmas
    /\ arg_alpha \in KernelAlphas
    /\ arg_eps \in KernelEps
    /\ kernel = <<>>
    /\ kpc = "start"

\* get_tile_weighting(size, sigma, alpha, eps): the array, or the ValueError
\* of np.minimum / w.max() for the sizes the body cannot handle
BuildKernel ==
    /\ kpc = "start"
    /\ IF KernelDefined(arg_size)
       THEN /\ kernel' = get_tile_weighting(arg_size, arg_sigma, arg_alpha, arg_eps)
            /\ kpc' = "done"
       ELSE /\ kpc' = "error"
            /\ UNCHANGED kernel
    /\ UNCHANGED <<arg_size, arg_sigma, arg_alpha, arg_eps, inferVars, trainVars>>

KernelOff ==
    /\ arg_size = 0 /\ arg_sigma = 0 /\ arg_alpha = <<1, 1>> /\ arg_eps = <<1, 1>>
    /\ kernel = <<>> /\ kpc = "off"

vars == <<inferVars, trainVars, kernelVars>>

Init == TrainInit /\ InferOff /\ KernelOff

Next ==
    \/ \E fold_nb \in FoldArgs : update_fold_nb(fold_nb)
    \/ load_pseudo_images
    \/ \E fold_nb \in FoldArgs : \E soft_labels \in BOOLEAN :
          LoadPseudoMasks(fold_nb, soft_labels)
    \/ \E is_train \in BOOLEAN : train(is_train)
    \/ \E idx \in 0..MaxIdx : GetItemBegin(idx)
    \/ Propose
    \/ GetItemReturn

Spec == Init /\ [][Next]_vars

\* the caller keeps running: a step of __getitem__ that can be taken is taken
FairSpec == Spec /\ WF_vars(Propose) /\ WF_vars(GetItemReturn)

InferNext == PredictStart \/ PredictBatch \/ PredictDivide

InitInfer == InferInit /\ TrainOff /\ KernelOff

SpecInfer == InitInfer /\ [][InferNext]_vars

KernelNext == BuildKernel

InitKernel == KernelInit /\ TrainOff /\ InferOff

SpecKernel == InitKernel /\ [][KernelNext]_vars


\* ------------------------------------------------------ claims: the planner
InRect(q, r) ==
    /\ r[1][1] <= q[1] /\ q[1] < r[1][2]
    /\ r[2][1] <= q[2] /\ q[2] < r[2][2]

RectInBounds(r, size) ==
    /\ 0 <= r[1][1] /\ r[1][1] < r[1][2] /\ r[1][2] <= size[1]
    /\ 0 <= r[2][1] /\ r[2][1] < r[2][2] /\ r[2][2] <= size[2]

\* C1: for every image size, tile size and overlap factor >= 1 the planned
\* rectangles cover every pixel of the image and each lies inside the image,
\* 0 <= x0 < x1 <= height and 0 <= y0 < y1 <= width (stated for the calls
\* that return; a zero step makes np.arange raise instead, and get_positions
\* returns at least one rectangle).
C1_CoverageAndBounds ==
    (overlap_factor[1] >= overlap_factor[2] /\ positions # <<>>) =>
        /\ \A q \in Pixels(orig_size) :
              \E k \in 1..Len(positions) : InRect(q, positions[k])
        /\ \A k \in 1..Len(positions) : RectInBounds(positions[k], orig_size)

\* floor(tile_size / overlap_factor), as the largest s with s * of <= tile_size
RefStep ==
    CHOOSE st \in 0..(2 * tile_size) :
        /\ st * overlap_factor[1] <= tile_size * overlap_factor[2]
        /\ (st + 1) * overlap_factor[1] > tile_size * overlap_factor[2]

\* the candidates 0, step, 2*step, ... below dim
RefCandidates(dim) == {c \in 0..(dim - 1) : c % RefStep = 0}

RefInterval(c, dim) ==
    IF c + tile_size <= dim THEN <<c, c + tile_size>> ELSE <<dim - tile_size, dim>>

\* C2: the planner returns the reference grid: one tile_size x tile_size
\* rectangle per pair of candidates 0, step, 2*step, ... < dimension, with
\* step = floor(tile_size / overlap_factor), each candidate kept in place when
\* the tile fits and shifted back to end at the boundary otherwise, listed
\* x-major, y-minor; the sequence is a function of the arguments alone.
C2_ReferenceGrid ==
    positions # <<>> =>
        LET nx == Cardinality(RefCandidates(orig_size[1]))
            ny == Cardinality(RefCandidates(orig_size[2]))
        IN  /\ Len(positions) = nx * ny
            /\ \A i \in 1..nx : \A j \in 1..ny :
                  LET r == positions[(i - 1) * ny + j]
                  IN  /\ (i - 1) * RefStep \in RefCandidates(orig_size[1])
                      /\ (j - 1) * RefStep \in RefCandidates(orig_size[2])
                      /\ r[1] = RefInterval((i - 1) * RefStep, orig_size[1])
                      /\ r[2] = RefInterval((j - 1) * RefStep, orig_size[2])
                      /\ r[1][2] - r[1][1] = tile_size
                      /\ r[2][2] - r[2][1] = tile_size

\* C2 witness: a grid with several rows and columns whose last row was
\* shifted back to end at the image boundary
C2_Witness ==
    /\ positions # <<>>
    /\ Len(positions) >= 4
    /\ orig_size[1] > tile_size
    /\ \E k \in 1..Len(positions) :
          /\ positions[k][1][2] = orig_size[1]
          /\ positions[k][1][1] % Step(tile_size, overlap_factor) # 0
          /\ positions[k][2][1] > 0

\* --------------------------------------------------- claims: accumulation
\* the weight the logged additions have put on pixel q
\* (the half sum of the kernel entries over q, taken in the order logged,
\* from the total w of the first k - 1 additions)
RECURSIVE LoggedWeight(_, _, _, _)
LoggedWeight(log, k, q, w) ==
    IF k > Len(log) THEN w
    ELSE LET e == log[k].pos
         IN  CHOOSE res \in
                 {LoggedWeight(log, k + 1, q, nxt) :
                     nxt \in {IF /\ e[1] <= q[1] /\ q[1] < e[2]
                                 /\ e[3] <= q[2] /\ q[2] < e[4]
                              THEN Round16(w + weighting[<<q[1] - e[1],
                                                           q[2] - e[3]>>])
                              ELSE w}} : TRUE

\* C9: the final division runs only after every planned rectangle has been
\* accumulated; the k-th accumulation is at the k-th planned rectangle, so
\* each is accumulated exactly once; and the prediction added there is the
\* one computed from the tile cropped at that same rectangle, whatever the
\* batch size.
C9_AccumulateEachOnceThenDivide ==
    /\ ppc = "done" => Len(accumulated) = Len(positions)
    /\ ppc \in {"loop", "done"} =>
          /\ Len(accumulated) = loader_i
          /\ \A k \in 1..Len(accumulated) :
                LET e == accumulated[k]
                    r == positions[k]
                IN  /\ e.pos = <<r[1][1], r[1][2], r[2][1], r[2][2]>>
                    /\ e.src = e.pos
                    /\ e.val = Infer(Crop(original_img, orig_size, r[1], r[2]).val)
          /\ \A q \in Pixels(orig_size) :
                global_counter[q] = LoggedWeight(accumulated, 1, q, 0)

\* C9 witness: a finished run whose tiles came in several batches, the last
\* one partial, over a non-uniform image
C9_Witness ==
    /\ ppc = "done"
    /\ batch_size > 1
    /\ Len(positions) > batch_size
    /\ Len(positions) % batch_size # 0
    /\ Len(accumulated) = Len(positions)
    /\ \E q \in Pixels(orig_size) : original_img[q] # original_img[<<0, 0>>]
    /\ \E q \in Pixels(orig_size) : global_counter[q] > HalfUnit

\* C10: the final division never divides by zero: the denominator is floored
\* at a small epsilon, so a pixel of weight 0 gets probability 0, not NaN.
C10_DivisionFloored ==
    ppc = "done" =>
        \A q \in Pixels(orig_size) :
            /\ global_pred[q].kind = "num"
            /\ global_counter[q] = 0 => global_pred[q].val = 0

\* ----------------------------------------------------- claims: the sampler
AsSet(seq) == {seq[k] : k \in 1..Len(seq)}

\* C3: after update_fold_nb(k) the train indices are {i : i mod 5 # k} and the
\* validation indices {i : i mod 5 = k}; the two are disjoint and together
\* are all the indices; the partition depends on k alone, so selecting
\* another fold and then k again gives the partition of k.
C3_FoldPartition ==
    [][\A k \in FoldArgs : update_fold_nb(k) =>
          LET all == 0..(Len(train_img_names) - 1)
          IN  /\ AsSet(train_img_idx') = {i \in all : i % NumFolds # k}
              /\ AsSet(valid_img_idx') = {i \in all : i % NumFolds = k}
              /\ Len(train_img_idx') + Len(valid_img_idx') = Len(train_img_names)
              /\ AsSet(train_img_idx') \cap AsSet(valid_img_idx') = {}
              /\ AsSet(train_img_idx') \cup AsSet(valid_img_idx') = all]_vars

\* C3 witness: fold 1 has been selected over MaxImages images
C3_Witness ==
    /\ Len(train_img_names) = MaxImages
    /\ valid_img_idx = <<1>>
    /\ Len(train_img_idx) = MaxImages - 1
    /\ gpc = "idle"

\* C4: selecting a fold outside [0, num_folds) fails with InvalidArgument and
\* leaves the train/validation partition as it was.
C4_InvalidFoldRejected ==
    [][\A k \in FoldArgs : (update_fold_nb(k) /\ k \notin 0..(NumFolds - 1)) =>
          /\ terror' = "InvalidArgument"
          /\ UNCHANGED <<train_img_idx, valid_img_idx>>]_vars

\* the rectangles __getitem__ can propose in image nb
Proposals(nb, pseudo) ==
    LET dim == get_img_dim(nb, pseudo)
    IN  (0..(dim[1] - before_crop_size - 1)) \X (0..(dim[2] - before_crop_size - 1))

ImageNbs(pseudo) ==
    IF pseudo THEN 0..(Len(pseudo_img_sizes) - 1) ELSE 0..(Len(image_sizes) - 1)

\* C5: accept_tile_policy returns True, without a draw, for every image,
\* rectangle and is_pseudo flag when the threshold is 0 or the mode is random;
\* so in validation mode (threshold 0) the loop never sees a rejected proposal.
C5_AlwaysAccept ==
    /\ (gpc # "off" /\ (sampling_thresh[1] = 0 \/ sampling_mode = "random")) =>
          \A pseudo \in BOOLEAN : \A nb \in ImageNbs(pseudo) :
            \A q \in Proposals(nb, pseudo) : \A u \in Draws :
               accept_tile_policy(nb, q[1], q[1] + before_crop_size,
                                  q[2], q[2] + before_crop_size, pseudo, u)
                 = Outcome(TRUE, FALSE, "none")
    /\ (gpc = "loop" /\ (sampling_thresh[1] = 0 \/ sampling_mode = "random")) =>
          /\ x1 = -1
          /\ ~is_point_ok

\* C5 witness: in validation mode of a visible-mode dataset built with
\* threshold 1, the first proposal on an image without any positive pixel
\* was accepted
C5_Witness ==
    /\ gpc = "select"
    /\ is_point_ok
    /\ sampling_thresh[1] = 0
    /\ on_spot_sampling = <<1, 1>>
    /\ sampling_mode = "visible"
    /\ masks[image_nb + 1].rects = <<>>

\* the number of positive pixels of raster m in [xa, xb) x [ya, yb), counted
\* pixel by pixel
PixelCount(m, xa, xb, ya, yb) ==
    Cardinality({q \in (Max(0, xa)..(Min(xb, m.h) - 1)) \X (Max(0, ya)..(Min(yb, m.w) - 1)) :
                    At(m, q[1], q[2]) = 1})

\* a proposal has been judged by accept_tile_policy in the running call
Judged == gpc \in {"loop", "select"} /\ x1 >= 0

\* C6: in visible mode with threshold 1 a non-synthetic rectangle is accepted
\* exactly when its positive pixel count is > 2000, whatever the draw: 2000 is
\* rejected, 2001 is accepted.
C6_VisibleBoundary ==
    (Judged /\ sampling_mode = "visible" /\ sampling_thresh = <<1, 1>> /\ ~is_pseudo) =>
        LET c == PixelCount(masks[image_nb + 1], x1, x1 + before_crop_size,
                            y1, y1 + before_crop_size)
        IN  /\ is_point_ok <=> c > 2000
            /\ c = 2000 => ~is_point_ok
            /\ c = 2001 => is_point_ok

\* C6 witness: a rectangle with exactly 2000 positive pixels was rejected
C6_Witness ==
    /\ Judged /\ sampling_mode = "visible" /\ sampling_thresh = <<1, 1>> /\ ~is_pseudo
    /\ PixelCount(masks[image_nb + 1], x1, x1 + before_crop_size,
                  y1, y1 + before_crop_size) = 2000
    /\ ~is_point_ok
    /\ should_keep # None

\* the primary condition of the mode for the tile's own rasters (the pseudo
\* mask for a synthetic tile, which has no hull and always passes in convhull)
PrimaryCondition ==
    LET m == IF is_pseudo THEN pseudo_masks[image_nb + 1] ELSE masks[image_nb + 1]
        cx == Center(x1, x1 + before_crop_size)
        cy == Center(y1, y1 + before_crop_size)
    IN  CASE sampling_mode = "centered" -> At(m, cx, cy) = 1
          [] sampling_mode = "convhull" ->
                is_pseudo \/ At(conv_hulls[image_nb + 1], cx, cy) = 1
          [] sampling_mode = "visible" ->
                PixelCount(m, x1, x1 + before_crop_size, y1, y1 + before_crop_size) > 2000
          [] OTHER -> TRUE

\* C7: in modes centered, convhull and visible with threshold t > 0, a
\* proposal whose primary condition holds is accepted without a draw, and one
\* whose primary condition fails is accepted exactly when the draw u > t (so
\* never for t = 1).
C7_SoftRejection ==
    (Judged /\ sampling_mode # "random" /\ sampling_thresh[1] > 0) =>
        IF PrimaryCondition
        THEN is_point_ok /\ should_keep = None
        ELSE /\ should_keep # None
             /\ is_point_ok <=> Gt(should_keep, sampling_thresh)

\* C8: the rejection loop ends after a bounded number of proposals, also when
\* the threshold is 1 and no position of the chosen image satisfies the
\* primary condition (here: a mask without any positive pixel).
C8_LoopTerminates ==
    (/\ gpc = "loop"
     /\ sampling_thresh = <<1, 1>>
     /\ sampling_mode \in {"centered", "visible"}
     /\ ~is_pseudo
     /\ masks[image_nb + 1].rects = <<>>) ~> (gpc # "loop")

\* ------------------------------------------------ claims: reconstruction
\* the loaded image has three axes and every channel of every pixel of it
\* has the same value
UniformImage ==
    /\ Len(orig_size) = 3
    /\ \A q \in Pixels(orig_size) : \A c \in 1..3 :
          original_img[q][c] = original_img[<<0, 0>>][1]

\* C11: reconstruction identity.  With the identity model over a uniform
\* image of value v, an overlap factor >= 1 and both image sides >= the tile
\* size, the map returned after accumulating every planned rectangle and
\* dividing equals v at every pixel, with or without test-time augmentation
\* (v in units of 2^-24, as the halves of the map are).
C11_ReconstructionIdentity ==
    (/\ ppc = "done"
     /\ UniformImage
     /\ overlap_factor[1] >= overlap_factor[2]
     /\ orig_size[1] >= tile_size
     /\ orig_size[2] >= tile_size) =>
        \A q \in Pixels(orig_size) :
            global_pred[q] = [kind |-> "num",
                              val |-> original_img[<<0, 0>>][1] * HalfUnit]

\* C11 witness: a finished run with test-time augmentation over a uniform
\* image of a nonzero value, larger than the tile, with overlapping tiles
C11_Witness ==
    /\ ppc = "done"
    /\ UniformImage
    /\ original_img[<<0, 0>>][1] >= 1
    /\ tta
    /\ overlap_factor[1] > overlap_factor[2]
    /\ orig_size[1] > tile_size
    /\ orig_size[2] > tile_size
    /\ Len(positions) >= 4
    /\ \E q \in Pixels(orig_size) :
          \E j, k \in 1..Len(positions) :
              j # k /\ InRect(q, positions[j]) /\ InRect(q, positions[k])

\* ------------------------------------------------------ claims: the kernel
\* x / 2^24 >= 1e-3 (2^24 / 1000 is not an integer)
AtLeastMilli(x) == x > HalfUnit \div 1000

\* C12: for every tile size, sigma, alpha and eps, each entry of the kernel
\* returned by get_tile_weighting lies in [1e-3, 1] (in units of 2^-24), the
\* center entries equal 1, and the kernel is unchanged by horizontal and by
\* vertical mirroring.
C12_KernelBounds ==
    kpc = "done" =>
        LET half == arg_size \div 2
        IN  /\ \A q \in DOMAIN kernel :
                  AtLeastMilli(kernel[q]) /\ kernel[q] <= HalfUnit
            /\ \A i, j \in {half - 1, half} : kernel[<<i, j>>] = HalfUnit
            /\ \A q \in DOMAIN kernel :
                  /\ kernel[q] = kernel[<<arg_size - 1 - q[1], q[2]>>]
                  /\ kernel[q] = kernel[<<q[1], arg_size - 1 - q[2]>>]

\* ------------------------------------------- claims: the choice of the image
\* C13: with acceptance threshold 0 the image of __getitem__(idx) is taken
\* uniformly from the validation subset of the current fold, independently of
\* the areas: over idx = 0 .. m*n-1, n the size of the validation subset, each
\* validation image is taken exactly m times and no other image is taken.
C13_UniformValidationDraw ==
    (gpc # "off" /\ sampling_thresh[1] = 0 /\ Len(used_img_idx) > 0) =>
        LET n == Len(valid_img_idx)
        IN  /\ \A m \in 1..2 : \A i \in 0..(Len(train_img_names) - 1) :
                  Cardinality({idx \in 0..(m * n - 1) : UniformChoice(idx) = i})
                    = IF i \in AsSet(valid_img_idx) THEN m ELSE 0
            /\ (gpc \in {"loop", "select"}) =>
                  (~is_pseudo /\ image_nb \in AsSet(valid_img_idx))

\* C14: every rectangle proposed by the rejection loop, and so every
\* rectangle accepted, is a square of side int(1.5 * train_tile_size) inside
\* the image it was drawn for (the pseudo image when is_pseudo):
\* 0 <= x1 < x2 <= height and 0 <= y1 < y2 <= width, and both sides of that
\* image exceed the crop size.
C14_ProposalInsideImage ==
    Judged =>
        LET dim == IF is_pseudo THEN pseudo_img_sizes[image_nb + 1]
                   ELSE image_sizes[image_nb + 1]
            side == (3 * TrainTileSize) \div 2
        IN  /\ dim[1] > side /\ dim[2] > side
            /\ 0 <= x1 /\ x1 < x1 + side /\ x1 + side <= dim[1]
            /\ 0 <= y1 /\ y1 < y1 + side /\ y1 + side <= dim[2]

\* C14 witness: an accepted rectangle of a pseudo image at the largest
\* column offset the proposal can take
C14_Witness ==
    /\ gpc = "select"
    /\ is_pseudo
    /\ x1 >= 0
    /\ y1 >= 1
    /\ y1 = pseudo_img_sizes[image_nb + 1][2] - (3 * TrainTileSize) \div 2 - 1

\* C15: in visible mode the test that decides the acceptance is the count of
\* positive pixels of the tile's own mask (the pseudo mask when is_pseudo)
\* inside the rectangle being > 2000, for synthetic tiles too: a proposal is
\* accepted on the primary condition (without a draw) exactly when that count
\* is > 2000.
C15_VisibleOwnMask ==
    (Judged /\ sampling_mode = "visible" /\ sampling_thresh[1] > 0) =>
        LET m == IF is_pseudo THEN pseudo_masks[image_nb + 1]
                 ELSE masks[image_nb + 1]
        IN  (should_keep = None)
              <=> (PixelCount(m, x1, x1 + before_crop_size,
                              y1, y1 + before_crop_size) > 2000)

\* C16: after any sequence of update_fold_nb and train calls the active
\* subset and the area weights are those of the current fold: with a positive
\* threshold (training) used_img_idx is the fold's train indices and
\* sampling_probs their area weights, in validation mode used_img_idx is the
\* fold's validation indices, and no training tile comes from an image of the
\* fold's validation set.
C16_ActiveSubsetOfCurrentFold ==
    gpc # "off" =>
        /\ used_img_idx \in {train_img_idx, valid_img_idx}
        /\ (sampling_thresh[1] # 0) =>
              (/\ used_img_idx = train_img_idx
               /\ sampling_probs = SamplingProbs(train_img_idx))
        /\ (sampling_thresh[1] = 0 /\ on_spot_sampling[1] # 0) =>
              (used_img_idx = valid_img_idx)
        /\ (gpc \in {"loop", "select"} /\ ~is_pseudo /\ sampling_thresh[1] # 0) =>
              (image_nb \notin AsSet(valid_img_idx))

\* ------------------------------------------------ claims: the weight total
\* weight_total is never negative and no accumulation step lowers it
CounterMonotone ==
    (ppc = "loop" /\ ppc' = "loop") =>
        \A q \in Pixels(orig_size) :
            /\ global_counter[q] >= 0
            /\ global_counter'[q] >= global_counter[q]

\* C17: when the final division runs, weight_total is at least the kernel
\* minimum 1e-3 at every pixel of the map, every pixel lying
\* in a planned rectangle; weight_total is never negative and never decreases
\* as tiles are added.
C17_WeightPositiveEverywhere ==
    [][/\ (ppc' = "done") =>
             (\A q \in Pixels(orig_size) : AtLeastMilli(global_counter'[q]))
       /\ CounterMonotone]_<<ppc, global_counter>>

\* C17 as amended: when the final division runs, weight_total is at least
\* 1e-3 exactly at the pixels that lie in a planned rectangle, which are all
\* the pixels when overlap_factor >= 1 (a smaller overlap factor makes the
\* step exceed the tile and leaves pixels with weight 0); weight_total is
\* never negative and never decreases as tiles are added.
C17_WeightPositiveWhereCovered ==
    [][/\ (ppc' = "done") =>
             (\A q \in Pixels(orig_size) :
                 /\ (AtLeastMilli(global_counter'[q]))
                       <=> (\E k \in 1..Len(positions) : InRect(q, positions[k]))
                 /\ global_counter'[q] >= 0
                 /\ (overlap_factor[1] >= overlap_factor[2])
                       => (AtLeastMilli(global_counter'[q])))
       /\ CounterMonotone]_<<ppc, global_counter>>

\* C17 witness: a finished run with overlapping 4x4 tiles in which the corner
\* pixel holds exactly the kernel minimum
C17_Witness ==
    /\ ppc = "done"
    /\ tile_size = 4
    /\ overlap_factor[1] > overlap_factor[2]
    /\ Len(positions) >= 4
    /\ global_counter[<<0, 0>>] = HalfOfRatio(1, 1000)
    /\ \E q \in Pixels(orig_size) : global_counter[q] > HalfUnit

====
